---- MODULE Spec2Model ----
(***************************************************************************)
(* Model of src/evaluate.py: a rubric is loaded and validated, raw score   *)
(* rows are loaded, every row is scored and the results are ranked, and    *)
(* two report writers render the ranked results.                           *)
(*                                                                         *)
(* Representation.                                                         *)
(*   text   a Python str is a sequence of one-character strings, over the  *)
(*          printable ASCII characters and the ASCII whitespace;           *)
(*   None   in a row of csv.DictReader, whose cells are texts or None,     *)
(*          None is the sentinel <<"None">>, which is no text;             *)
(*   int    a Python int is a record [s, m]: the sign and the magnitude,   *)
(*          a natural number of any size;                                  *)
(*   float  a Python float is an IEEE 754 binary64 value: a record         *)
(*          [k, s, m, e] that is NaN, an infinity, or (-1)^s * m * 2^e;    *)
(*   value  what yaml.safe_load returns is a record [t, v]: the type of    *)
(*          the value (str, int, float, bool, null, seq, map) and the      *)
(*          value; a mapping is the sequence of its <<key, value>> pairs   *)
(*          in the order of the document;                                  *)
(*   error  an exception is its type and its message, the message given    *)
(*          as a sequence of pieces of text: that of a raise statement of  *)
(*          the source, of a KeyError (the repr of the key) and of a       *)
(*          ZeroDivisionError in full, that of a ValueError of float() or  *)
(*          int() up to its colon, and for a TypeError or AttributeError   *)
(*          the name of the call or attribute that failed.                 *)
(* sum() adds from left to right, as CPython does up to version 3.11.      *)
(***************************************************************************)
EXTENDS Integers, Sequences, FiniteSets, TLC

VARIABLES pc, criteria, min_score, max_score, rows, results,
          csv_out, md_out, err, call

vars == <<pc, criteria, min_score, max_score, rows, results,
          csv_out, md_out, err, call>>

(***************************************************************************)
(* Bounds of the model.                                                    *)
(***************************************************************************)
MaxCriteria == 2
MaxRows == 3

(***************************************************************************)
(* Natural numbers of any size: the sequence of the limbs of the number in *)
(* base 2^15, least significant first, without a most significant zero     *)
(* limb; zero is the empty sequence.                                       *)
(***************************************************************************)
Base == 32768

Max(a, b) == IF a < b THEN b ELSE a

\* the least element of a nonempty set of integers
Min(S) == CHOOSE x \in S : \A y \in S : x <= y

\* the greatest element of a nonempty set of integers
Top(S) == CHOOSE x \in S : \A y \in S : y <= x

\* a without its most significant zero limbs
BigNorm(a) == SubSeq(a, 1, Top({i \in 1..Len(a) : a[i] # 0} \cup {0}))

\* a natural number below 2^31
BigOfNat(n) ==
    BigNorm(<<n % Base, (n \div Base) % Base, n \div (Base * Base)>>)

\* the value of a number of at most two limbs
NatOfBig(a) ==
    IF a = <<>> THEN 0 ELSE IF Len(a) = 1 THEN a[1] ELSE a[1] + Base * a[2]

\* the limbs lo..hi of the number whose limbs, before any carry, are the
\* integers of s, with the carry c coming in from below: the limbs, then
\* the carry that goes out on top
RECURSIVE BigCarryRange(_, _, _, _)
BigCarryRange(s, lo, hi, c) ==
    IF lo = hi THEN <<(s[lo] + c) % Base, (s[lo] + c) \div Base>>
    ELSE LET L == BigCarryRange(s, lo, (lo + hi) \div 2, c)
         IN  SubSeq(L, 1, Len(L) - 1)
             \o BigCarryRange(s, ((lo + hi) \div 2) + 1, hi, L[Len(L)])

\* the number whose limbs, before any carry, are the integers of s, plus c
BigCarry(s, c) ==
    IF s = <<>> THEN BigOfNat(c) ELSE BigNorm(BigCarryRange(s, 1, Len(s), c))

BigAdd(a, b) ==
    BigCarry([i \in 1..Max(Len(a), Len(b)) |->
                 (IF i <= Len(a) THEN a[i] ELSE 0)
                 + (IF i <= Len(b) THEN b[i] ELSE 0)], 0)

\* a - b for a >= b
BigSub(a, b) ==
    BigCarry([i \in 1..Len(a) |-> a[i] - (IF i <= Len(b) THEN b[i] ELSE 0)], 0)

\* -1, 0, 1 as a < b, a = b, a > b: told by the lengths, or by the highest
\* limb in which the two differ
BigCmp(a, b) ==
    LET D == {i \in 1..Len(a) : a[i] # b[i]}
    IN  IF Len(a) < Len(b) THEN -1
        ELSE IF Len(a) > Len(b) THEN 1
        ELSE IF D = {} THEN 0
        ELSE IF a[Top(D)] < b[Top(D)] THEN -1
        ELSE 1

\* a * k + c for 0 <= k <= 2^15 and c < 2^15
BigMulSmall(a, k, c) == BigCarry([i \in 1..Len(a) |-> a[i] * k], c)

\* a * Base^n
ShiftLimbs(a, n) == IF a = <<>> THEN a ELSE [i \in 1..n |-> 0] \o a

RECURSIVE BigMul(_, _)
BigMul(a, b) ==
    IF a = <<>> \/ b = <<>> THEN <<>>
    ELSE BigAdd(BigMulSmall(a, b[1], 0), ShiftLimbs(BigMul(a, Tail(b)), 1))

\* the limbs hi down to lo of a divided by d, with the remainder r coming
\* in from above: the limbs of the quotient from hi down to lo, then the
\* remainder that goes out below
RECURSIVE BigDivSmallRange(_, _, _, _, _)
BigDivSmallRange(a, d, lo, hi, r) ==
    IF lo = hi THEN <<(r * Base + a[lo]) \div d, (r * Base + a[lo]) % d>>
    ELSE LET H == BigDivSmallRange(a, d, ((lo + hi) \div 2) + 1, hi, r)
         IN  SubSeq(H, 1, Len(H) - 1)
             \o BigDivSmallRange(a, d, lo, (lo + hi) \div 2, H[Len(H)])

Reverse(t) == [i \in 1..Len(t) |-> t[Len(t) + 1 - i]]

\* the quotient q and the remainder r of a by d, for 0 < d <= 2^15
BigDivSmall(a, d) ==
    LET R == BigDivSmallRange(a, d, 1, Len(a), 0)
    IN  IF a = <<>> THEN [q |-> <<>>, r |-> 0]
        ELSE [q |-> BigNorm(Reverse(SubSeq(R, 1, Len(R) - 1))), r |-> R[Len(R)]]

\* a * 2^k
BigShl(a, k) == ShiftLimbs(BigMulSmall(a, 2 ^ (k % 15), 0), k \div 15)

\* a \div 2^k
BigShr(a, k) ==
    IF k \div 15 >= Len(a) THEN <<>>
    ELSE BigDivSmall(SubSeq(a, (k \div 15) + 1, Len(a)), 2 ^ (k % 15)).q

\* the number of bits of a
BigBitLen(a) ==
    IF a = <<>> THEN 0
    ELSE 15 * (Len(a) - 1) + Min({k \in 0..15 : a[Len(a)] < 2 ^ k})

\* bit k of a, bit 0 the least significant
BigBit(a, k) ==
    IF (k \div 15) + 1 > Len(a) THEN 0
    ELSE (a[(k \div 15) + 1] \div (2 ^ (k % 15))) % 2

\* the number of zero bits at the low end of a nonzero a
BigTrailingZeros(a) ==
    LET j == Min({i \in 1..Len(a) : a[i] # 0})
    IN  15 * (j - 1) + Min({k \in 0..15 : a[j] % (2 ^ (k + 1)) # 0})

\* a is a multiple of 2^k
BigLowZero(a, k) == a = <<>> \/ BigTrailingZeros(a) >= k

\* the greatest d in lo..hi with b * d <= r, where b * lo <= r
RECURSIVE BigQuotLimb(_, _, _, _)
BigQuotLimb(r, b, lo, hi) ==
    IF lo = hi THEN lo
    ELSE IF BigCmp(BigMulSmall(b, (lo + hi + 1) \div 2, 0), r) <= 0
    THEN BigQuotLimb(r, b, (lo + hi + 1) \div 2, hi)
    ELSE BigQuotLimb(r, b, lo, ((lo + hi + 1) \div 2) - 1)

\* long division, one limb of the quotient at a time: the limbs of a above
\* limb i are done, with quotient q and remainder r
RECURSIVE BigDivLimbs(_, _, _, _, _)
BigDivLimbs(a, b, i, q, r) ==
    IF i = 0 THEN [q |-> BigNorm(q), r |-> r]
    ELSE LET r2 == IF r = <<>> THEN BigOfNat(a[i]) ELSE <<a[i]>> \o r
             d  == IF BigCmp(r2, b) < 0 THEN 0 ELSE BigQuotLimb(r2, b, 1, Base - 1)
         IN  BigDivLimbs(a, b, i - 1, <<d>> \o q,
                         IF d = 0 THEN r2 ELSE BigSub(r2, BigMulSmall(b, d, 0)))

\* quotient and remainder of a by b, b nonzero
BigDivMod(a, b) ==
    IF BigCmp(a, b) < 0 THEN [q |-> <<>>, r |-> a]
    ELSE BigDivLimbs(a, b, Len(a) - Len(b) + 1, <<>>,
                     SubSeq(a, Len(a) - Len(b) + 2, Len(a)))

\* a * 10^k
RECURSIVE BigMulPow10(_, _)
BigMulPow10(a, k) ==
    IF a = <<>> THEN a
    ELSE IF k <= 4 THEN BigMulSmall(a, 10 ^ k, 0)
    ELSE BigMulPow10(BigMulPow10(a, k \div 2), k - (k \div 2))

DigitChars == <<"0", "1", "2", "3", "4", "5", "6", "7", "8", "9">>

IsDigit(c) == \E i \in 1..10 : DigitChars[i] = c

\* the d decimal digits of n < 10^d
RECURSIVE PadDigits(_, _)
PadDigits(n, d) ==
    IF d = 0 THEN <<>>
    ELSE PadDigits(n \div 10, d - 1) \o <<DigitChars[(n % 10) + 1]>>

\* t without the zeros in front
DropZeros(t) ==
    SubSeq(t, Min({i \in 1..Len(t) : t[i] # "0"} \cup {Len(t) + 1}), Len(t))

\* the decimal digits of a, four at a time, with zeros in front
RECURSIVE BigDigits4(_)
BigDigits4(a) ==
    IF a = <<>> THEN <<>>
    ELSE LET dm == BigDivSmall(a, 10000)
         IN  BigDigits4(dm.q) \o PadDigits(dm.r, 4)

\* the decimal digits of a, none for zero
BigDigits(a) == DropZeros(BigDigits4(a))

\* the number written with the decimal digits lo..hi of t
RECURSIVE BigOfDigits(_, _, _)
BigOfDigits(t, lo, hi) ==
    IF lo > hi THEN <<>>
    ELSE IF lo = hi
    THEN BigOfNat((CHOOSE i \in 1..10 : DigitChars[i] = t[lo]) - 1)
    ELSE BigAdd(BigMulPow10(BigOfDigits(t, lo, (lo + hi) \div 2),
                            hi - ((lo + hi) \div 2)),
                BigOfDigits(t, ((lo + hi) \div 2) + 1, hi))

(***************************************************************************)
(* Floats: IEEE 754 binary64, as Python's float. A finite float is         *)
(* (-1)^s * m * 2^e with m zero (and e zero) or m odd, m < 2^53,           *)
(* e >= -1074 and m * 2^e < 2^1024. Every operation computes the exact     *)
(* result and rounds it once, to nearest, ties to even.                    *)
(***************************************************************************)
Zero(s) == [k |-> "fin", s |-> s, m |-> <<>>, e |-> 0]

NaN == [k |-> "nan", s |-> 0, m |-> <<>>, e |-> 0]

Inf(s) == [k |-> "inf", s |-> s, m |-> <<>>, e |-> 0]

IsZero(x) == x.k = "fin" /\ x.m = <<>>

\* m * 2^e, brought to an odd m; infinite from 2^1024 on
Pack(s, m, e) ==
    LET tz == BigTrailingZeros(m)
    IN  IF m = <<>> THEN Zero(s)
        ELSE IF BigBitLen(m) + e > 1024 THEN Inf(s)
        ELSE [k |-> "fin", s |-> s, m |-> BigShr(m, tz), e |-> e + tz]

\* the float nearest to n * 2^e, or, if sticky, to a value strictly between
\* n * 2^e and (n + 1) * 2^e where n has 55 bits or more: the bits of n
\* below the 53 of a mantissa, and those below 2^-1074, are rounded away
RoundTo(s, n, e, sticky) ==
    LET drop == Max(Max(BigBitLen(n) - 53, -1074 - e), 0)
    IN  IF n = <<>> THEN Zero(s)
        ELSE IF drop = 0 THEN Pack(s, n, e)
        ELSE IF BigBit(n, drop - 1) = 1
                /\ (sticky \/ ~BigLowZero(n, drop - 1) \/ BigBit(n, drop) = 1)
        THEN Pack(s, BigAdd(BigShr(n, drop), <<1>>), e + drop)
        ELSE Pack(s, BigShr(n, drop), e + drop)

\* the float nearest to (a / b) * 2^e, with a and b nonzero
QuotRound(s, a, b, e) ==
    LET sh == Max(0, 55 + BigBitLen(b) - BigBitLen(a))
        dm == BigDivMod(BigShl(a, sh), b)
    IN  RoundTo(s, dm.q, e - sh, dm.r # <<>>)

\* Python's int: the sign and the magnitude
BigInt(s, m) == [s |-> IF m = <<>> THEN 0 ELSE s, m |-> m]

\* the int of a small integer of the model
IntVal(n) == BigInt(IF n < 0 THEN 1 ELSE 0, BigOfNat(IF n < 0 THEN -n ELSE n))

\* float(n) for an int n, infinite where Python raises OverflowError
FromInt(n) == RoundTo(n.s, n.m, 0, FALSE)

\* int(x) for a finite float x: x without its fraction
Trunc(x) ==
    BigInt(x.s, IF x.e >= 0 THEN BigShl(x.m, x.e) ELSE BigShr(x.m, -x.e))

\* an int as the float-like value it is exactly, for comparisons
Exact(n) == [k |-> "fin", s |-> n.s, m |-> n.m, e |-> 0]

\* -x
FNeg(x) == IF x.k = "nan" THEN x ELSE [x EXCEPT !.s = 1 - x.s]

\* abs(x)
FAbs(x) == IF x.k = "nan" THEN x ELSE [x EXCEPT !.s = 0]

\* x + y: the mantissas a and b are aligned at the exponent e; a term below
\* a quarter of the last place of the other changes nothing
FAdd(x, y) ==
    LET e == Min({x.e, y.e})
        a == BigShl(x.m, x.e - e)
        b == BigShl(y.m, y.e - e)
    IN  IF x.k = "nan" \/ y.k = "nan" THEN NaN
        ELSE IF x.k = "inf" /\ y.k = "inf" THEN (IF x.s = y.s THEN x ELSE NaN)
        ELSE IF x.k = "inf" THEN x
        ELSE IF y.k = "inf" THEN y
        ELSE IF x.m = <<>> /\ y.m = <<>>
        THEN Zero(IF x.s = 1 /\ y.s = 1 THEN 1 ELSE 0)
        ELSE IF x.m = <<>> THEN y
        ELSE IF y.m = <<>> THEN x
        ELSE IF BigBitLen(x.m) + x.e > BigBitLen(y.m) + y.e + 55 THEN x
        ELSE IF BigBitLen(y.m) + y.e > BigBitLen(x.m) + x.e + 55 THEN y
        ELSE IF x.s = y.s THEN RoundTo(x.s, BigAdd(a, b), e, FALSE)
        ELSE IF BigCmp(a, b) = 0 THEN Zero(0)
        ELSE IF BigCmp(a, b) > 0 THEN RoundTo(x.s, BigSub(a, b), e, FALSE)
        ELSE RoundTo(y.s, BigSub(b, a), e, FALSE)

\* x - y
FSub(x, y) == FAdd(x, FNeg(y))

\* x * y
FMul(x, y) ==
    IF x.k = "nan" \/ y.k = "nan" THEN NaN
    ELSE IF x.k = "inf" \/ y.k = "inf"
    THEN (IF IsZero(x) \/ IsZero(y) THEN NaN ELSE Inf((x.s + y.s) % 2))
    ELSE RoundTo((x.s + y.s) % 2, BigMul(x.m, y.m), x.e + y.e, FALSE)

\* x / y for a nonzero y
FDiv(x, y) ==
    IF x.k = "nan" \/ y.k = "nan" THEN NaN
    ELSE IF x.k = "inf" THEN (IF y.k = "inf" THEN NaN ELSE Inf((x.s + y.s) % 2))
    ELSE IF y.k = "inf" \/ x.m = <<>> THEN Zero((x.s + y.s) % 2)
    ELSE QuotRound((x.s + y.s) % 2, x.m, y.m, x.e - y.e)

\* -1, 0, 1 as |x| < |y|, |x| = |y|, |x| > |y| for floats that are not NaN
CmpAbs(x, y) ==
    LET e == Min({x.e, y.e})
    IN  IF x.k = "inf" THEN (IF y.k = "inf" THEN 0 ELSE 1)
        ELSE IF y.k = "inf" THEN -1
        ELSE IF x.m = <<>> THEN (IF y.m = <<>> THEN 0 ELSE -1)
        ELSE IF y.m = <<>> THEN 1
        ELSE IF BigBitLen(x.m) + x.e < BigBitLen(y.m) + y.e THEN -1
        ELSE IF BigBitLen(x.m) + x.e > BigBitLen(y.m) + y.e THEN 1
        ELSE BigCmp(BigShl(x.m, x.e - e), BigShl(y.m, y.e - e))

\* -1, 0, 1 as x < y, x == y, x > y for floats that are not NaN: told by
\* the signs sx and sy, -1, 0 or 1, or by the magnitudes
FCmp(x, y) ==
    LET sx == IF IsZero(x) THEN 0 ELSE IF x.s = 1 THEN -1 ELSE 1
        sy == IF IsZero(y) THEN 0 ELSE IF y.s = 1 THEN -1 ELSE 1
    IN  IF sx < sy THEN -1
        ELSE IF sx > sy THEN 1
        ELSE IF sx = 0 THEN 0
        ELSE sx * CmpAbs(x, y)

\* x < y; every comparison with NaN is false
FLt(x, y) == x.k # "nan" /\ y.k # "nan" /\ FCmp(x, y) < 0

\* x <= y
FLe(x, y) == x.k # "nan" /\ y.k # "nan" /\ FCmp(x, y) <= 0

\* x == y
FEq(x, y) == x.k # "nan" /\ y.k # "nan" /\ FCmp(x, y) = 0

(***************************************************************************)
(* Texts.                                                                  *)
(***************************************************************************)
None == <<"None">>

\* the ASCII characters str.strip() removes
Whitespace ==
    {" ", "\t", "\n", "\r", "\f", "", "", "", "", ""}

\* the ASCII characters float() and int() skip around a number
NumberSpace == {" ", "\t", "\n", "\r", "\f", ""}

RECURSIVE LStrip(_, _)
LStrip(t, ws) ==
    IF t # <<>> /\ Head(t) \in ws THEN LStrip(Tail(t), ws) ELSE t

RECURSIVE RStrip(_, _)
RStrip(t, ws) ==
    IF t # <<>> /\ t[Len(t)] \in ws
    THEN RStrip(SubSeq(t, 1, Len(t) - 1), ws)
    ELSE t

\* str.strip()
Strip(t) == LStrip(RStrip(t, Whitespace), Whitespace)

\* str(n) for an int n
IntStr(n) ==
    IF n.m = <<>> THEN <<"0">>
    ELSE (IF n.s = 1 THEN <<"-">> ELSE <<>>) \o BigDigits(n.m)

\* the same for a small integer of the model
IntText(n) == IntStr(IntVal(n))

\* f"{x:.<d>f}" for d > 0: the exact value of x times 10^d is rounded to
\* the integer n, to nearest, ties to even, whose digits are written with
\* zeros before them up to d + 1 digits and a point before the last d
Format(x, d) ==
    LET t  == BigMulPow10(x.m, d)
        k  == -x.e
        n  == IF x.e >= 0 THEN BigShl(t, x.e)
              ELSE IF BigBit(t, k - 1) = 1
                      /\ (~BigLowZero(t, k - 1) \/ BigBit(t, k) = 1)
              THEN BigAdd(BigShr(t, k), <<1>>)
              ELSE BigShr(t, k)
        ds == [i \in 1..Max(0, d + 1 - Len(BigDigits(n))) |-> "0"] \o BigDigits(n)
    IN  IF x.k = "nan" THEN <<"n", "a", "n">>
        ELSE (IF x.s = 1 THEN <<"-">> ELSE <<>>)
             \o (IF x.k = "inf" THEN <<"i", "n", "f">>
                 ELSE SubSeq(ds, 1, Len(ds) - d) \o <<".">>
                      \o SubSeq(ds, Len(ds) - d + 1, Len(ds)))

\* t with the letters of nan, inf and infinity, and e, in lower case
LowerText(t) ==
    LET Lower(c) ==
            IF c = "I" THEN "i" ELSE IF c = "N" THEN "n" ELSE IF c = "F" THEN "f"
            ELSE IF c = "T" THEN "t" ELSE IF c = "Y" THEN "y"
            ELSE IF c = "A" THEN "a" ELSE IF c = "E" THEN "e" ELSE c
    IN  [i \in 1..Len(t) |-> Lower(t[i])]

\* digits, with single underscores allowed between two digits
IsDigitPart(t) ==
    /\ t # <<>>
    /\ \A i \in 1..Len(t) :
          \/ IsDigit(t[i])
          \/ t[i] = "_" /\ 1 < i /\ i < Len(t) /\ IsDigit(t[i - 1]) /\ IsDigit(t[i + 1])

DigitsOf(t) == SelectSeq(t, IsDigit)

\* the first position of t holding a character of cs, Len(t) + 1 if none
Find(t, cs) == Min({i \in 1..Len(t) : t[i] \in cs} \cup {Len(t) + 1})

\* the value of the digits t, at most 99999
SmallVal(t) ==
    IF Len(DropZeros(t)) > 5 THEN 99999
    ELSE NatOfBig(BigOfDigits(DropZeros(t), 1, Len(DropZeros(t))))

\* the float nearest to ds * 10^x for digits ds without leading zeros
DecToFloat(s, ds, x) ==
    IF ds = <<>> THEN Zero(s)
    ELSE IF Len(ds) + x > 310 THEN Inf(s)
    ELSE IF Len(ds) + x < -330 THEN Zero(s)
    ELSE IF x >= 0
    THEN RoundTo(s, BigMulPow10(BigOfDigits(ds, 1, Len(ds)), x), 0, FALSE)
    ELSE QuotRound(s, BigOfDigits(ds, 1, Len(ds)), BigMulPow10(<<1>>, -x), 0)

\* float(text): [ok |-> TRUE, val |-> the float] or a failed parse. Without
\* the whitespace around it, the text is an optional sign s and a body:
\* nan, inf or infinity in any case, or the decimal literal
\* (digits ["." [digits]] | "." digits) [("e" | "E") ["+" | "-"] digits]
\* with the integer digits ip, the fraction digits fp and the exponent ex
ParseFloat(t) ==
    LET u      == LStrip(RStrip(t, NumberSpace), NumberSpace)
        s      == IF u # <<>> /\ Head(u) = "-" THEN 1 ELSE 0
        body   == IF u # <<>> /\ Head(u) \in {"-", "+"} THEN Tail(u) ELSE u
        epos   == Find(body, {"e", "E"})
        hasexp == epos <= Len(body)
        mt     == SubSeq(body, 1, epos - 1)
        et     == SubSeq(body, epos + 1, Len(body))
        ex     == IF et # <<>> /\ Head(et) \in {"+", "-"} THEN Tail(et) ELSE et
        dot    == Find(mt, {"."})
        ip     == SubSeq(mt, 1, dot - 1)
        fp     == SubSeq(mt, dot + 1, Len(mt))
        x10    == IF ~hasexp THEN 0
                  ELSE IF Head(et) = "-" THEN -SmallVal(DigitsOf(ex))
                  ELSE SmallVal(DigitsOf(ex))
    IN  IF LowerText(body) = <<"n", "a", "n">> THEN [ok |-> TRUE, val |-> NaN]
        ELSE IF LowerText(body) \in {<<"i", "n", "f">>,
                                     <<"i", "n", "f", "i", "n", "i", "t", "y">>}
        THEN [ok |-> TRUE, val |-> Inf(s)]
        ELSE IF \/ ip = <<>> /\ fp = <<>>
                \/ ip # <<>> /\ ~IsDigitPart(ip)
                \/ fp # <<>> /\ ~IsDigitPart(fp)
                \/ hasexp /\ ~IsDigitPart(ex)
        THEN [ok |-> FALSE, val |-> NaN]
        ELSE [ok |-> TRUE,
              val |-> DecToFloat(s, DropZeros(DigitsOf(ip) \o DigitsOf(fp)),
                                 x10 - Len(DigitsOf(fp)))]

\* int(text): [ok |-> TRUE, val |-> the int] or a failed parse. Without the
\* whitespace around it, the text is an optional sign, then digits
ParseInt(t) ==
    LET u    == LStrip(RStrip(t, NumberSpace), NumberSpace)
        s    == IF u # <<>> /\ Head(u) = "-" THEN 1 ELSE 0
        body == IF u # <<>> /\ Head(u) \in {"-", "+"} THEN Tail(u) ELSE u
        ds   == DropZeros(DigitsOf(body))
    IN  IF IsDigitPart(body)
        THEN [ok |-> TRUE, val |-> BigInt(s, BigOfDigits(ds, 1, Len(ds)))]
        ELSE [ok |-> FALSE, val |-> IntVal(0)]

(***************************************************************************)
(* repr of a float: the shortest decimal that reads back as the float.     *)
(***************************************************************************)
\* |x| * 10^k is a fraction with this denominator, for a finite x
ScaledDen(x, k) == BigShl(BigMulPow10(<<1>>, Max(-k, 0)), Max(-x.e, 0))

\* the integer part q of |x| * 10^k, and the remainder r
Scaled(x, k) ==
    BigDivMod(BigShl(BigMulPow10(x.m, Max(k, 0)), Max(x.e, 0)), ScaledDen(x, k))

\* the E with 10^E <= |x| < 10^(E + 1): the integer part of |x| / 10^E0,
\* for the estimate E0 that is E or one off, has no digit, one or two
Log10(x) ==
    LET E0 == ((BigBitLen(x.m) + x.e - 1) * 30103) \div 100000
    IN  E0 - 1 + Len(BigDigits(Scaled(x, -E0).q))

\* the decimal c / 10^k reads back as |x|
ReadsBack(x, c, k) == c # <<>> /\ DecToFloat(0, BigDigits(c), -k) = FAbs(x)

\* of the two neighbours of |x| * 10^k among the integers, dm.q and
\* dm.q + 1 where dm is the integer part and the remainder of |x| * 10^k,
\* the nearer one of those that read back as |x|, ties to the even one;
\* zero if neither does: the two are tried nearer first
Nearest(x, k, dm) ==
    (SelectSeq(IF \/ BigCmp(BigMulSmall(dm.r, 2, 0), ScaledDen(x, k)) < 0
                  \/ /\ BigCmp(BigMulSmall(dm.r, 2, 0), ScaledDen(x, k)) = 0
                     /\ dm.q # <<>>
                     /\ dm.q[1] % 2 = 0
               THEN <<dm.q, BigAdd(dm.q, <<1>>)>>
               ELSE <<BigAdd(dm.q, <<1>>), dm.q>>,
               LAMBDA c : ReadsBack(x, c, k))
     \o << <<>> >>)[1]

\* the digits ds, read as 0.ds * 10^decpt and written without the zeros at
\* their end: with the point after the first decpt of them, or, for the
\* exponent E out of -4..15, with the point after the first digit, times
\* 10^E
DigitsRepr(ds, decpt) ==
    LET ts == SubSeq(ds, 1, Top({i \in 1..Len(ds) : ds[i] # "0"}))
        Zeros(n) == [i \in 1..n |-> "0"]
        E == decpt - 1
        absE == IF E < 0 THEN -E ELSE E
    IN  IF -4 < decpt /\ decpt <= 16
        THEN (IF decpt <= 0 THEN <<"0", ".">> \o Zeros(-decpt) \o ts
              ELSE IF decpt >= Len(ts)
              THEN ts \o Zeros(decpt - Len(ts)) \o <<".", "0">>
              ELSE SubSeq(ts, 1, decpt) \o <<".">> \o SubSeq(ts, decpt + 1, Len(ts)))
        ELSE <<Head(ts)>> \o (IF Len(ts) > 1 THEN <<".">> \o Tail(ts) ELSE <<>>)
             \o <<"e", IF E < 0 THEN "-" ELSE "+">>
             \o PadDigits(absE, IF absE < 100 THEN 2 ELSE 3)

\* the shortest decimal that reads back as |x|, where
\* 10^E <= |x| < 10^(E + 1): the decimals c / 10^(n - 1 - E) of n digits
\* are tried for n = 1, 2, ...; c is the one of n digits, zero if there is
\* none
RECURSIVE Shortest(_, _, _, _)
Shortest(x, E, n, c) ==
    IF c # <<>> THEN DigitsRepr(BigDigits(c), Len(BigDigits(c)) - (n - 1 - E))
    ELSE Shortest(x, E, n + 1, Nearest(x, n - E, Scaled(x, n - E)))

\* repr(x), which is also str(x)
FloatRepr(x) ==
    IF x.k = "nan" THEN <<"n", "a", "n">>
    ELSE (IF x.s = 1 THEN <<"-">> ELSE <<>>)
         \o (IF x.k = "inf" THEN <<"i", "n", "f">>
             ELSE IF x.m = <<>> THEN <<"0", ".", "0">>
             ELSE Shortest(x, Log10(x), 0, <<>>))

(***************************************************************************)
(* Outcomes of a call: a returned value or a raised exception.             *)
(***************************************************************************)
Ok(v) == [ok |-> TRUE, exc |-> "", msg |-> <<>>, val |-> v]

Raise(e, m) == [ok |-> FALSE, exc |-> e, msg |-> m, val |-> <<>>]

\* a loop over calls with these outcomes: the first one that raised ends
\* the loop, otherwise the loop has every returned value, in order
Collect(outcomes) ==
    IF \E k \in 1..Len(outcomes) : ~outcomes[k].ok
    THEN outcomes[Min({k \in 1..Len(outcomes) : ~outcomes[k].ok})]
    ELSE Ok([k \in 1..Len(outcomes) |-> outcomes[k].val])

(***************************************************************************)
(* Values of a YAML document and the conversions str(), float(), int().    *)
(***************************************************************************)
YStr(t) == [t |-> "str", v |-> t]

YInt(n) == [t |-> "int", v |-> n]

YFloat(x) == [t |-> "float", v |-> x]

YBool(b) == [t |-> "bool", v |-> b]

YNull == [t |-> "null", v |-> <<>>]

YSeq(s) == [t |-> "seq", v |-> s]

YMap(pairs) == [t |-> "map", v |-> pairs]

\* the texts of a sequence, one after the other, with sep between them
RECURSIVE Join(_, _)
Join(ts, sep) ==
    IF ts = <<>> THEN <<>>
    ELSE IF Len(ts) = 1 THEN ts[1]
    ELSE Join(SubSeq(ts, 1, Len(ts) \div 2), sep) \o sep
         \o Join(SubSeq(ts, (Len(ts) \div 2) + 1, Len(ts)), sep)

\* repr(t) for a str t: between the quotes q, single unless t has a single
\* quote and no double quote, with the characters written as repr does
StrRepr(t) ==
    LET q == IF (\E i \in 1..Len(t) : t[i] = "'")
                /\ ~(\E i \in 1..Len(t) : t[i] = "\"")
             THEN "\"" ELSE "'"
        ReprChar(c) ==
            IF c = "\\" THEN <<"\\", "\\">>
            ELSE IF c = q THEN <<"\\", q>>
            ELSE IF c = "\t" THEN <<"\\", "t">>
            ELSE IF c = "\n" THEN <<"\\", "n">>
            ELSE IF c = "\r" THEN <<"\\", "r">>
            ELSE IF c = "" THEN <<"\\", "x", "0", "b">>
            ELSE IF c = "\f" THEN <<"\\", "x", "0", "c">>
            ELSE IF c = "" THEN <<"\\", "x", "1", "c">>
            ELSE IF c = "" THEN <<"\\", "x", "1", "d">>
            ELSE IF c = "" THEN <<"\\", "x", "1", "e">>
            ELSE IF c = "" THEN <<"\\", "x", "1", "f">>
            ELSE <<c>>
    IN  <<q>> \o Join([i \in 1..Len(t) |-> ReprChar(t[i])], <<>>) \o <<q>>

\* repr(v)
RECURSIVE Repr(_)
Repr(v) ==
    CASE v.t = "str" -> StrRepr(v.v)
      [] v.t = "int" -> IntStr(v.v)
      [] v.t = "float" -> FloatRepr(v.v)
      [] v.t = "bool" -> (IF v.v THEN <<"T", "r", "u", "e">>
                          ELSE <<"F", "a", "l", "s", "e">>)
      [] v.t = "null" -> <<"N", "o", "n", "e">>
      [] v.t = "seq" ->
            <<"[">> \o Join([i \in 1..Len(v.v) |-> Repr(v.v[i])], <<",", " ">>)
            \o <<"]">>
      [] v.t = "map" ->
            <<"{">>
            \o Join([i \in 1..Len(v.v) |->
                        Repr(v.v[i][1]) \o <<":", " ">> \o Repr(v.v[i][2])],
                    <<",", " ">>)
            \o <<"}">>

\* str(v)
StrOf(v) == IF v.t = "str" THEN v.v ELSE Repr(v)

\* float(n) for an int n, given the nearest float x
IntToFloat(x) ==
    IF x.k = "inf"
    THEN Raise("OverflowError", <<"int too large to convert to float">>)
    ELSE Ok(x)

\* float(t) for a str t, given the parse p
TextToFloat(p) ==
    IF p.ok THEN Ok(p.val)
    ELSE Raise("ValueError", <<"could not convert string to float">>)

\* float(v)
FloatOf(v) ==
    CASE v.t = "float" -> Ok(v.v)
      [] v.t = "int" -> IntToFloat(FromInt(v.v))
      [] v.t = "bool" -> Ok(FromInt(IntVal(IF v.v THEN 1 ELSE 0)))
      [] v.t = "str" -> TextToFloat(ParseFloat(v.v))
      [] OTHER -> Raise("TypeError", <<"float() argument">>)

\* int(v)
IntOf(v) ==
    CASE v.t = "int" -> Ok(v.v)
      [] v.t = "bool" -> Ok(IntVal(IF v.v THEN 1 ELSE 0))
      [] v.t = "float" ->
            (IF v.v.k = "nan"
             THEN Raise("ValueError", <<"cannot convert float NaN to integer">>)
             ELSE IF v.v.k = "inf"
             THEN Raise("OverflowError",
                        <<"cannot convert float infinity to integer">>)
             ELSE Ok(Trunc(v.v)))
      [] v.t = "str" ->
            (IF ParseInt(v.v).ok THEN Ok(ParseInt(v.v).val)
             ELSE Raise("ValueError", <<"invalid literal for int() with base 10">>))
      [] OTHER -> Raise("TypeError", <<"int() argument">>)

\* the positions of the mapping d that hold the key
KeyAt(d, key) == {i \in 1..Len(d.v) : d.v[i][1] = key}

\* d.get(key, default) on a mapping d
Get(d, key, default) ==
    IF KeyAt(d, key) = {} THEN default ELSE d.v[Min(KeyAt(d, key))][2]

\* c[key] for a str key
Subscript(c, key) ==
    IF c.t # "map" THEN Raise("TypeError", <<"subscript">>)
    ELSE IF KeyAt(c, key) = {} THEN Raise("KeyError", StrRepr(key.v))
    ELSE Ok(c.v[Min(KeyAt(c, key))][2])

\* what a for loop over v visits: the items of a list, the characters of a
\* str, the keys of a mapping
Items(v) ==
    CASE v.t = "seq" -> Ok(v.v)
      [] v.t = "str" -> Ok([i \in 1..Len(v.v) |-> YStr(<<v.v[i]>>)])
      [] v.t = "map" -> Ok([i \in 1..Len(v.v) |-> v.v[i][1]])
      [] OTHER -> Raise("TypeError", <<"object is not iterable">>)

(***************************************************************************)
(* load_criteria                                                           *)
(***************************************************************************)
\* the keys of the rubric document
K ==
    [scale    |-> <<"s", "c", "a", "l", "e">>,
     min      |-> <<"m", "i", "n">>,
     max      |-> <<"m", "a", "x">>,
     criteria |-> <<"c", "r", "i", "t", "e", "r", "i", "a">>,
     id       |-> <<"i", "d">>,
     name     |-> <<"n", "a", "m", "e">>,
     weight   |-> <<"w", "e", "i", "g", "h", "t">>]

Criterion(cid, name, weight) == [cid |-> cid, name |-> name, weight |-> weight]

\* the 1.0 and the 1e-5 of line 42
One == FromInt(IntVal(1))

Tolerance == DecToFloat(0, <<"1">>, -5)

\* left-to-right sum of a sequence of floats, from 0
RECURSIVE SumFloats(_)
SumFloats(xs) ==
    IF xs = <<>> THEN Zero(0)
    ELSE FAdd(SumFloats(SubSeq(xs, 1, Len(xs) - 1)), xs[Len(xs)])

\* sum(c.weight for c in criteria)
SumWeights(cs) == SumFloats([i \in 1..Len(cs) |-> cs[i].weight])

\* abs(total_weight - 1.0) > 1e-5
WeightsOff(cs) == FLt(Tolerance, FAbs(FSub(SumWeights(cs), One)))

\* len(ids) != len(set(ids))
IdsRepeat(cs) == Len(cs) # Cardinality({cs[i].cid : i \in 1..Len(cs)})

WeightsMsg == <<"Criteria weights must sum to 1.0">>

IdsMsg == <<"Criterion IDs must be unique">>

\* BuildWithId with the id taken as written
BuildWithId_NoStrip(c, id) ==
    LET \* what follows a call with outcome o: F, on the value returned,
        \* unless the call raised
        Then(o, F(_)) == IF o.ok THEN F(o.val) ELSE o
    IN
    Then(id, LAMBDA i :
    Then(Subscript(c, YStr(K.name)), LAMBDA name :
    Then(Subscript(c, YStr(K.weight)), LAMBDA w :
    Then(FloatOf(w), LAMBDA x :
    Ok(Criterion(StrOf(i), Strip(StrOf(name)), x))))))

\* lines 35-37, given the outcome id of c["id"]: str(c["id"]).strip(), then
\* c["name"], c["weight"] and float(c["weight"]), each of which may raise
BuildWithId(c, id) ==
    LET \* what follows a call with outcome o: F, on the value returned,
        \* unless the call raised
        Then(o, F(_)) == IF o.ok THEN F(o.val) ELSE o
    IN
    Then(id, LAMBDA i :
    Then(Subscript(c, YStr(K.name)), LAMBDA name :
    Then(Subscript(c, YStr(K.weight)), LAMBDA w :
    Then(FloatOf(w), LAMBDA x :
    Ok(Criterion(Strip(StrOf(i)), Strip(StrOf(name)), x))))))

\* lines 33-39: the Criterion built from one entry of the rubric
BuildCriterion(c) == BuildWithId(c, Subscript(c, YStr(K.id)))

\* lines 32-39: the loop over raw_criteria
BuildCriteria(raw) ==
    LET \* what follows a call with outcome o: F, on the value returned,
        \* unless the call raised
        Then(o, F(_)) == IF o.ok THEN F(o.val) ELSE o
    IN
    Then(Items(raw), LAMBDA items :
    Collect([i \in 1..Len(items) |-> BuildCriterion(items[i])]))

\* lines 25-49; data is the document yaml.safe_load returned: scale of
\* line 25, the int() of lines 26 and 27, the loop, then the two checks
LoadCriteria(data) ==
    LET \* what follows a call with outcome o: F, on the value returned,
        \* unless the call raised
        Then(o, F(_)) == IF o.ok THEN F(o.val) ELSE o
    IN
    IF data.t # "map" THEN Raise("AttributeError", <<"get">>)
    ELSE
    Then(Ok(Get(data, YStr(K.scale), YMap(<<>>))), LAMBDA scale :
    IF scale.t # "map" THEN Raise("AttributeError", <<"get">>)
    ELSE
    Then(IntOf(Get(scale, YStr(K.min), YInt(IntVal(1)))), LAMBDA mn :
    Then(IntOf(Get(scale, YStr(K.max), YInt(IntVal(5)))), LAMBDA mx :
    Then(BuildCriteria(Get(data, YStr(K.criteria), YSeq(<<>>))), LAMBDA built :
    IF WeightsOff(built) THEN Raise("ValueError", WeightsMsg)
    ELSE IF IdsRepeat(built) THEN Raise("ValueError", IdsMsg)
    ELSE Ok([criteria |-> built, min_score |-> mn, max_score |-> mx])))))

(***************************************************************************)
(* load_scores                                                             *)
(***************************************************************************)
\* the column names: tool and notes of the source, and the criterion ids a
\* and b of the tables the model draws
T ==
    [tool  |-> <<"t", "o", "o", "l">>,
     notes |-> <<"n", "o", "t", "e", "s">>,
     a     |-> <<"a">>,
     b     |-> <<"b">>]

\* table is the list of rows csv.DictReader yields: each row maps the
\* header's column names to a text, or to None where the line was short
LoadScores(table) ==
    IF table = <<>> THEN Raise("ValueError", <<"scores.csv is empty">>)
    ELSE IF T.tool \notin DOMAIN table[1]
    THEN Raise("ValueError", <<"scores.csv must contain a 'tool' column">>)
    ELSE Ok(table)

(***************************************************************************)
(* parse_score                                                             *)
(***************************************************************************)
\* InRange with the upper bound excluded
InRange_Exclusive(score, mn, mx) ==
    FLe(Exact(mn), score) /\ FLt(score, Exact(mx))

\* min_score <= score <= max_score, an int compared with a float by value
InRange(score, mn, mx) == FLe(Exact(mn), score) /\ FLe(score, Exact(mx))

\* lines 70-73: float(value), then the range check on the score
ParseScore(value, mn, mx) ==
    LET \* what follows a call with outcome o: F, on the value returned,
        \* unless the call raised
        Then(o, F(_)) == IF o.ok THEN F(o.val) ELSE o
    IN
    IF value = None THEN Raise("TypeError", <<"float() argument">>)
    ELSE
    Then(TextToFloat(ParseFloat(value)), LAMBDA score :
    IF ~InRange(score, mn, mx)
    THEN Raise("ValueError",
               <<"Score ">> \o FloatRepr(score) \o <<" out of range">>)
    ELSE Ok(score))

(***************************************************************************)
(* compute_results                                                         *)
(***************************************************************************)
\* lines 93-96 for criterion j: row[c.cid], parse_score, and the
\* conversion of max_score to a float that the sum of line 96 makes; the
\* score is what the totals need
RowScore(cs, row, mn, mx, j) ==
    LET \* what follows a call with outcome o: F, on the value returned,
        \* unless the call raised
        Then(o, F(_)) == IF o.ok THEN F(o.val) ELSE o
    IN
    IF cs[j].cid \notin DOMAIN row THEN Raise("KeyError", StrRepr(cs[j].cid))
    ELSE
    Then(ParseScore(row[cs[j].cid], mn, mx), LAMBDA score :
    Then(IntToFloat(FromInt(mx)), LAMBDA m : Ok(score)))

\* Normalized left as a fraction
Normalized_Fraction(raw_total, max_raw) == FDiv(raw_total, max_raw)

\* (raw_total / max_raw) * 100.0
Normalized(raw_total, max_raw) ==
    FMul(FDiv(raw_total, max_raw), FromInt(IntVal(100)))

\* the totals of lines 94-96 over the scores of a row, and the result of
\* lines 98-106
RowResult(cs, row, mx, scores) ==
    LET max_raw == SumFloats([j \in 1..Len(cs) |-> FromInt(mx)])
    IN  IF IsZero(max_raw)
        THEN Raise("ZeroDivisionError", <<"float division by zero">>)
        ELSE Ok([tool |-> Strip(row[T.tool]),
                 weighted_score |->
                     Format(SumFloats([j \in 1..Len(cs) |->
                                          FMul(scores[j], cs[j].weight)]), 3),
                 normalized_percent |->
                     Format(Normalized(SumFloats(scores), max_raw), 1),
                 notes |-> IF T.notes \in DOMAIN row THEN row[T.notes] ELSE <<>>])

\* the body of the loop of lines 86-107 for one row
ScoreRow(cs, row, mn, mx) ==
    LET \* what follows a call with outcome o: F, on the value returned,
        \* unless the call raised
        Then(o, F(_)) == IF o.ok THEN F(o.val) ELSE o
    IN
    IF T.tool \notin DOMAIN row THEN Raise("KeyError", StrRepr(T.tool))
    ELSE IF row[T.tool] = None THEN Raise("AttributeError", <<"strip">>)
    ELSE
    Then(Collect([j \in 1..Len(cs) |-> RowScore(cs, row, mn, mx, j)]),
         LAMBDA scores : RowResult(cs, row, mx, scores))

\* ScoreRows that drops a row it cannot score and carries on
ScoreRows_SkipFailed(cs, rs, mn, mx) ==
    LET \* what follows a call with outcome o: F, on the value returned,
        \* unless the call raised
        Then(o, F(_)) == IF o.ok THEN F(o.val) ELSE o
    IN
    Then(Ok(SelectSeq([k \in 1..Len(rs) |-> ScoreRow(cs, rs[k], mn, mx)],
                      LAMBDA o : o.ok)),
         LAMBDA scored : Ok([k \in 1..Len(scored) |-> scored[k].val]))

\* the loop of lines 86-107: the first row that cannot be scored raises,
\* otherwise there is one result per row, in row order
ScoreRows(cs, rs, mn, mx) ==
    Collect([k \in 1..Len(rs) |-> ScoreRow(cs, rs[k], mn, mx)])

\* key=lambda r: float(r["weighted_score"])
SortKey(r) == ParseFloat(r.weighted_score).val

\* the comparison list.sort makes between two items with their keys
KeyLt(x, y) == FLt(x.key, y.key)

\* list.sort's count_run: the end of the run that starts the list s, which
\* is strictly descending if desc
RECURSIVE RunEnd(_, _, _)
RunEnd(s, i, desc) ==
    IF i < Len(s) /\ (KeyLt(s[i + 1], s[i]) <=> desc)
    THEN RunEnd(s, i + 1, desc)
    ELSE i

\* the length of that run and whether it is strictly descending
CountRun(s) ==
    IF Len(s) = 1 THEN [n |-> 1, desc |-> FALSE]
    ELSE [n |-> RunEnd(s, 2, KeyLt(s[2], s[1])), desc |-> KeyLt(s[2], s[1])]

\* list.sort's binarysort: the insertion point of pivot in s[l..r-1]
RECURSIVE BinSearch(_, _, _, _)
BinSearch(s, pivot, l, r) ==
    IF l >= r THEN l
    ELSE IF KeyLt(pivot, s[l + ((r - l) \div 2)])
    THEN BinSearch(s, pivot, l, l + ((r - l) \div 2))
    ELSE BinSearch(s, pivot, l + ((r - l) \div 2) + 1, r)

\* the items from start on are moved, one by one, each to its insertion
\* point pos among those before it, the items between shifted right
RECURSIVE BinarySort(_, _)
BinarySort(s, start) ==
    LET pos == BinSearch(s, s[start], 1, start)
    IN  IF start > Len(s) THEN s
        ELSE BinarySort(SubSeq(s, 1, pos - 1) \o <<s[start]>>
                        \o SubSeq(s, pos, start - 1)
                        \o SubSeq(s, start + 1, Len(s)),
                        start + 1)

\* the items of a list of items with their keys
Unkeyed(s) == [i \in 1..Len(s) |-> s[i].item]

\* results.sort(key=..., reverse=True) for a list shorter than 64 items:
\* the key of every item is computed once and moves with the item; the
\* list is reversed, its first run is found and, if descending, reversed,
\* the rest is inserted into it, and the list is reversed again
SortResults(s) ==
    LET Sorted(a, run) ==
            Unkeyed(Reverse(BinarySort(IF run.desc
                                       THEN Reverse(SubSeq(a, 1, run.n))
                                            \o SubSeq(a, run.n + 1, Len(a))
                                       ELSE a,
                                       run.n + 1)))
        SortKeyed(a) == Sorted(a, CountRun(a))
    IN  IF Len(s) < 2 THEN s
        ELSE SortKeyed(Reverse([i \in 1..Len(s) |->
                                   [key |-> SortKey(s[i]), item |-> s[i]]]))

\* lines 84-110
ComputeResults(cs, rs, mn, mx) ==
    LET \* what follows a call with outcome o: F, on the value returned,
        \* unless the call raised
        Then(o, F(_)) == IF o.ok THEN F(o.val) ELSE o
    IN
    Then(ScoreRows(cs, rs, mn, mx), LAMBDA scored : Ok(SortResults(scored)))

(***************************************************************************)
(* write_csv, write_markdown                                               *)
(***************************************************************************)
NoFile == <<>>

\* the records of the file: the header, then one record per result; the
\* csv module writes None as the empty field
WriteCsv(rs) ==
    << <<"tool", "weighted_score", "normalized_percent", "notes">> >>
    \o [i \in 1..Len(rs) |->
           <<rs[i].tool, rs[i].weighted_score, rs[i].normalized_percent,
             IF rs[i].notes = None THEN <<>> ELSE rs[i].notes>>]

\* the items of the list lines that writelines writes, each without the
\* newline that ends it: the title, which ends in a second newline and so
\* is followed by a blank line in the file, the two lines of the table
\* head, then one line per result, given as the cells between its pipes;
\* an f-string writes None as the text None
WriteMarkdown(rs) ==
    << <<"# Tool Evaluation Results">>,
       <<"| Rank | Tool | Weighted Score | Normalized (0-100) | Notes | ">>,
       <<"|---:|---|---:|---:|---|">> >>
    \o [i \in 1..Len(rs) |->
           <<IntText(i), rs[i].tool, rs[i].weighted_score,
             rs[i].normalized_percent,
             IF rs[i].notes = None THEN <<"N", "o", "n", "e">> ELSE rs[i].notes>>]

(***************************************************************************)
(* The inputs: rubric documents and score tables.                          *)
(***************************************************************************)
\* the id written for the i-th criterion of a list
PositionId(i) ==
    IF i = 1 THEN T.a
    ELSE IF i = 2 THEN <<" ", "b", "\n">>
    ELSE <<"c">> \o IntText(i)

RawName == <<" ", "A", "c", "c", "\r", "\n">>

Half == DecToFloat(0, <<"5">>, -1)

\* 2^53
Big53 == RoundTo(0, <<0, 0, 0, 256>>, 0, FALSE)

\* 0.5 as a float and as a text, 0.50001, 0.5000048, 0.5000052, -0.5, 1.5,
\* 0.98, 1.02, the int 1, 2^53 and 1 - 2^53, the infinities, and two
\* values that are no number
Weights ==
    {YFloat(Half), YStr(<<"0", ".", "5">>),
     YFloat(DecToFloat(0, <<"5", "0", "0", "0", "1">>, -5)),
     YFloat(DecToFloat(0, <<"5", "0", "0", "0", "0", "4", "8">>, -7)),
     YFloat(DecToFloat(0, <<"5", "0", "0", "0", "0", "5", "2">>, -7)),
     YFloat(FNeg(Half)), YFloat(DecToFloat(0, <<"1", "5">>, -1)),
     YFloat(DecToFloat(0, <<"9", "8">>, -2)),
     YFloat(DecToFloat(0, <<"1", "0", "2">>, -2)),
     YInt(IntVal(1)), YFloat(Big53), YFloat(FSub(One, Big53)),
     YFloat(Inf(0)), YFloat(Inf(1)), YNull, YStr(<<"x">>)}

Entry(id, name, weight) ==
    YMap(<< <<YStr(K.id), id>>, <<YStr(K.name), name>>,
            <<YStr(K.weight), weight>> >>)

\* the lists of up to MaxCriteria entries with these weights
WeightLists ==
    UNION {{[i \in 1..n |-> Entry(YStr(PositionId(i)), YStr(RawName), w[i])] :
               w \in [1..n -> Weights]} : n \in 0..MaxCriteria}

RawIds ==
    {YStr(T.a), YStr(<<"\t", "a", "\n">>), YStr(<<"a", "">>), YStr(T.b),
     YStr(<<"7">>), YInt(IntVal(7)), YFloat(DecToFloat(0, <<"7">>, 0)),
     YNull, YStr(<<"N", "o", "n", "e">>), YBool(TRUE),
     YSeq(<<YStr(T.a), YInt(IntVal(-1))>>),
     YMap(<< <<YStr(<<"'">>), YFloat(Tolerance)>> >>)}

\* the lists of two entries with these ids, each of weight 0.5
IdLists ==
    {<<Entry(i1, YStr(RawName), YFloat(Half)),
       Entry(i2, YInt(IntVal(2)), YFloat(Half))>> : i1 \in RawIds, i2 \in RawIds}

\* entries that are no mapping or lack a key, weights of other types, and
\* the weight NaN
OddEntries ==
    {YNull, YStr(T.a), YSeq(<<YStr(K.id)>>), YInt(IntVal(1)),
     YMap(<< <<YStr(K.name), YStr(RawName)>>, <<YStr(K.weight), YInt(IntVal(1))>> >>),
     YMap(<< <<YStr(K.id), YStr(T.a)>>, <<YStr(K.weight), YInt(IntVal(1))>> >>),
     YMap(<< <<YStr(K.id), YStr(T.a)>>, <<YStr(K.name), YStr(RawName)>> >>),
     Entry(YStr(T.a), YStr(RawName), YBool(TRUE)),
     Entry(YStr(T.a), YStr(RawName), YStr(<<" ", "1", "e", "0", "\n">>)),
     Entry(YStr(T.a), YStr(RawName), YStr(<<"1", "">>)),
     Entry(YStr(T.a), YStr(RawName), YSeq(<<>>)),
     Entry(YStr(T.a), YStr(RawName), YFloat(NaN)),
     Entry(YStr(T.a), YStr(RawName), YInt(BigInt(0, BigMulPow10(<<1>>, 309))))}

Scale(mn, mx) == YMap(<< <<YStr(K.min), mn>>, <<YStr(K.max), mx>> >>)

\* the scale mappings of the documents the pipeline is run on: max only,
\* both bounds, a max above a million, and bounds that are floats
ScaleDocs ==
    {YMap(<< <<YStr(K.max), YInt(IntVal(100))>> >>),
     Scale(YInt(IntVal(1)), YInt(IntVal(1000001))),
     Scale(YInt(IntVal(0)), YInt(IntVal(0))),
     Scale(YInt(IntVal(-1)), YInt(IntVal(1))),
     Scale(YFloat(DecToFloat(0, <<"1", "9">>, -1)),
           YFloat(DecToFloat(0, <<"5", "7">>, -1)))}

\* scale values of other types
OddScales ==
    {YNull, YSeq(<<>>), YStr(K.min),
     Scale(YNull, YInt(IntVal(5))), Scale(YInt(IntVal(1)), YNull),
     Scale(YStr(<<"2">>), YStr(<<" ", "+", "1", "_", "0", "\n">>)),
     Scale(YStr(<<"x">>), YNull), Scale(YInt(IntVal(1)), YStr(<<"5", ".", "0">>)),
     Scale(YBool(FALSE), YBool(TRUE)),
     Scale(YFloat(NaN), YInt(IntVal(5))), Scale(YInt(IntVal(1)), YFloat(Inf(0))),
     Scale(YFloat(DecToFloat(1, <<"1", "9">>, -1)), YFloat(Big53)),
     Scale(YSeq(<<>>), YInt(IntVal(5)))}

Doc(cl) == YMap(<< <<YStr(K.criteria), cl>> >>)

ScaledDoc(sc, cl) == YMap(<< <<YStr(K.scale), sc>>, <<YStr(K.criteria), cl>> >>)

\* the documents the pipeline is run on
RubricDocs ==
    {Doc(YSeq(cl)) : cl \in WeightLists}
    \cup {ScaledDoc(sc, YSeq(cl)) : sc \in ScaleDocs, cl \in WeightLists}

\* documents that are no mapping, and criteria that are no list
OddDocs ==
    {YNull, YSeq(<<>>), YStr(K.criteria), YMap(<<>>),
     Doc(YNull), Doc(YStr(<<>>)), Doc(YStr(T.a)), Doc(YMap(<<>>)),
     Doc(Entry(YStr(T.a), YStr(RawName), YInt(IntVal(1)))),
     Doc(YInt(IntVal(1))),
     YMap(<< <<YStr(K.criteria), YSeq(<<>>)>>, <<YStr(K.scale), YNull>> >>)}

\* the documents load_criteria is called on; an odd entry comes alone,
\* after a valid entry, and before an invalid one
CallDocs ==
    RubricDocs \cup OddDocs
    \cup {Doc(YSeq(cl)) : cl \in IdLists}
    \cup {Doc(YSeq(<<e>>)) : e \in OddEntries}
    \cup {Doc(YSeq(<<Entry(YStr(T.b), YStr(RawName), YFloat(Half)), e>>)) :
             e \in OddEntries}
    \cup {Doc(YSeq(<<e, Entry(YStr(T.b), YStr(RawName), YStr(<<"x">>))>>)) :
             e \in OddEntries}
    \cup {ScaledDoc(sc, YSeq(<<Entry(YStr(T.a), YStr(RawName), YInt(IntVal(1)))>>)) :
             sc \in OddScales}

\* the value of an int of the model's size
Small(n) == IF n.s = 1 THEN -NatOfBig(n.m) ELSE NatOfBig(n.m)

AllCols == {T.tool, T.a, T.b, T.notes}

Headers == {AllCols, {T.a, T.b, T.notes}, {T.tool, T.a}}

\* row i of a table, with the given score cells
FullRow(i, a, b) ==
    [c \in AllCols |->
        IF c = T.tool THEN <<" ", "t">> \o IntText(i) \o <<"\n">>
        ELSE IF c = T.a THEN a
        ELSE IF c = T.b THEN b
        ELSE <<"n">> \o IntText(i)]

\* tables whose every cell is the text of mn or of mx: the score cells of
\* a row are both at mx, or one at mn and the other at mx
CleanTables(mn, mx) ==
    UNION {[1..n -> {<<IntText(mx), IntText(mx)>>, <<IntText(mn), IntText(mx)>>,
                     <<IntText(mx), IntText(mn)>>}] : n \in 0..MaxRows}

\* score cells in other notations, and scores with a fraction; the file is
\* read in text mode, so a cell has no carriage return
OtherPairs ==
    {<<<<"4", ".", "5">>, <<"2", ".", "5">>>>,
     <<<<"1", "e", "0">>, <<"+", "5", "E", "-", "0", "0">>>>,
     <<<<"\n", "5", "\n">>, <<"5", ".", "0", "0", "0", "0", "0", "0", "0">>>>,
     <<<<"1", ".", "1", "2", "5">>, <<"1", ".", "5">>>>,
     <<<<"0", ".", "1", "2", "5">>, <<"-", "0">>>>,
     <<<<"0", ".", "0", "0", "0", "5">>, <<"0", ".", "0", "0", "0", "5">>>>,
     <<<<"1", "_", "0">>, <<"1", "0", "0", ".">>>>,
     <<<<"I", "n", "f", "i", "n", "i", "t", "y">>, <<"1">>>>,
     <<<<"5", "">>, <<"1">>>>}

\* row i with one cell that makes scoring fail
FaultyRow(i, f, mn, mx) ==
    IF f = "low" THEN FullRow(i, IntText(mn - 1), IntText(mx))
    ELSE IF f = "high" THEN FullRow(i, IntText(mx), IntText(mx + 1))
    ELSE IF f = "text" THEN FullRow(i, <<"a", "b", "c">>, IntText(mx))
    ELSE IF f = "short"
    THEN [FullRow(i, IntText(mx), None) EXCEPT ![T.notes] = None]
    ELSE [FullRow(i, IntText(mx), IntText(mx)) EXCEPT ![T.tool] = None]

\* the tables drawn for a scale mn..mx, before the header is chosen
FullTables(mn, mx) ==
    {[i \in 1..Len(t) |-> FullRow(i, t[i][1], t[i][2])] : t \in CleanTables(mn, mx)}
    \cup {<<FullRow(1, p[1], p[2])>> : p \in OtherPairs}
    \cup {[i \in 1..n |-> IF i = p THEN FaultyRow(i, f, mn, mx)
                          ELSE FullRow(i, IntText(mx), IntText(mx))] :
             n \in 1..MaxRows, p \in 1..MaxRows,
             f \in {"low", "high", "text", "short", "notool"}}

Tables(mn, mx) ==
    {[i \in 1..Len(t) |-> [c \in h |-> t[i][c]]] :
        t \in FullTables(mn, mx), h \in Headers}

(***************************************************************************)
(* main: one action per statement of lines 147-154.                        *)
(***************************************************************************)
Pending == Raise("", <<"pending">>)

NoCall == [fn |-> "none", arg |-> <<>>, ret |-> Raise("", <<"none">>)]

Init ==
    /\ pc = "load_criteria"
    /\ criteria = <<>>
    /\ min_score = IntVal(0)
    /\ max_score = IntVal(0)
    /\ rows = <<>>
    /\ results = <<>>
    /\ csv_out = NoFile
    /\ md_out = NoFile
    /\ err = [exc |-> "", msg |-> <<>>]
    /\ call = NoCall

\* the exception of the outcome o ends the run; in the actions, o is the
\* outcome of the one call the statement makes
Fail(o) ==
    /\ pc' = "failed"
    /\ err' = [exc |-> o.exc, msg |-> o.msg]

\* line 147
MainLoadCriteria ==
    /\ pc = "load_criteria"
    /\ \E data \in RubricDocs :
          \E o \in {LoadCriteria(data)} :
              IF o.ok
              THEN /\ pc' = "load_scores"
                   /\ criteria' = o.val.criteria
                   /\ min_score' = o.val.min_score
                   /\ max_score' = o.val.max_score
                   /\ UNCHANGED err
              ELSE /\ Fail(o)
                   /\ UNCHANGED <<criteria, min_score, max_score>>
    /\ UNCHANGED <<rows, results, csv_out, md_out, call>>

\* line 148
MainLoadScores ==
    /\ pc = "load_scores"
    /\ \E table \in Tables(Small(min_score), Small(max_score)) :
          \E o \in {LoadScores(table)} :
              IF o.ok
              THEN /\ pc' = "compute_results"
                   /\ rows' = o.val
                   /\ UNCHANGED err
              ELSE /\ Fail(o)
                   /\ UNCHANGED rows
    /\ UNCHANGED <<criteria, min_score, max_score, results, csv_out, md_out, call>>

\* line 149
MainComputeResults ==
    /\ pc = "compute_results"
    /\ \E o \in {ComputeResults(criteria, rows, min_score, max_score)} :
          IF o.ok
          THEN /\ pc' = "write_csv"
               /\ results' = o.val
               /\ UNCHANGED err
          ELSE /\ Fail(o)
               /\ UNCHANGED results
    /\ UNCHANGED <<criteria, min_score, max_score, rows, csv_out, md_out, call>>

\* line 151
MainWriteCsv ==
    /\ pc = "write_csv"
    /\ csv_out' = WriteCsv(results)
    /\ pc' = "write_markdown"
    /\ UNCHANGED <<criteria, min_score, max_score, rows, results, md_out, err, call>>

\* line 152
MainWriteMarkdown ==
    /\ pc = "write_markdown"
    /\ md_out' = WriteMarkdown(results)
    /\ pc' = "print"
    /\ UNCHANGED <<criteria, min_score, max_score, rows, results, csv_out, err, call>>

\* line 154
MainPrint ==
    /\ pc = "print"
    /\ pc' = "done"
    /\ UNCHANGED <<criteria, min_score, max_score, rows, results, csv_out,
                   md_out, err, call>>

Next ==
    \/ MainLoadCriteria
    \/ MainLoadScores
    \/ MainComputeResults
    \/ MainWriteCsv
    \/ MainWriteMarkdown
    \/ MainPrint

Spec == Init /\ [][Next]_vars

(***************************************************************************)
(* load_criteria and parse_score called on their own: the arguments are    *)
(* drawn in the initial state and one action applies the function.         *)
(***************************************************************************)
Scales == {<<1, 5>>, <<1, 100>>, <<0, 0>>, <<-1, 1>>, <<5, 1>>}

\* the cell values tried against a scale mn..mx
ScoreValues(mn, mx) ==
    {IntText(n) : n \in {mn - 1, mn, mn + 1, mx - 1, mx, mx + 1}}
    \cup {<<" ">> \o IntText(mx) \o <<"\r", "\n">>, IntText(mx) \o <<".", "0">>,
          <<"", "+">> \o IntText(mx) \o <<"\f">>,
          IntText(mx) \o <<"">>,
          IntText(mx) \o <<".", "0", "0", "0", "0", "0", "0", "0", "1">>,
          IntText(mx) \o <<".", "0", "0", "0", "0", "0", "0", "0", "0", "0",
                             "0", "0", "0", "0", "0", "0", "0", "0", "1">>,
          IntText(mn) \o <<"e", "0">>, IntText(mx) \o <<"0", "E", "-", "1">>,
          <<"n", "a", "n">>, <<"N", "a", "N">>, <<"i", "n", "f">>,
          <<"-", "i", "n", "f">>, <<"I", "n", "f", "i", "n", "i", "t", "y">>,
          <<"-", "I", "N", "F">>, <<"1", "e", "4", "0", "0">>,
          <<"1", "e", "-", "4", "0", "0">>, <<"1", "e", "2", "2">>,
          <<"0", ".", "0", "0", "0", "0", "1">>,
          <<"4", ".", "5">>, <<"0", ".", "1", "2", "3", "4", "5", "6", "7">>,
          <<"0", "_", "1">>, <<"1", "_">>, <<".", "5">>, <<".">>, <<"1", "e">>,
          <<"a", "b", "c">>, <<>>, None}

InitCalls ==
    /\ pc = "call"
    /\ criteria = <<>>
    /\ min_score = IntVal(0)
    /\ max_score = IntVal(0)
    /\ rows = <<>>
    /\ results = <<>>
    /\ csv_out = NoFile
    /\ md_out = NoFile
    /\ err = [exc |-> "", msg |-> <<>>]
    /\ call \in
          {[fn |-> "load_criteria", arg |-> data, ret |-> Pending] :
              data \in CallDocs}
          \cup UNION {{[fn |-> "parse_score",
                        arg |-> [value |-> v, min_score |-> s[1], max_score |-> s[2]],
                        ret |-> Pending] : v \in ScoreValues(s[1], s[2])} :
                         s \in Scales}

CallLoadCriteria ==
    /\ call.fn = "load_criteria"
    /\ call.ret = Pending
    /\ call' = [call EXCEPT !.ret = LoadCriteria(call.arg)]
    /\ UNCHANGED <<pc, criteria, min_score, max_score, rows, results,
                   csv_out, md_out, err>>

CallParseScore ==
    /\ call.fn = "parse_score"
    /\ call.ret = Pending
    /\ call' = [call EXCEPT !.ret =
                   ParseScore(call.arg.value, IntVal(call.arg.min_score),
                              IntVal(call.arg.max_score))]
    /\ UNCHANGED <<pc, criteria, min_score, max_score, rows, results,
                   csv_out, md_out, err>>

NextCalls ==
    \/ CallLoadCriteria
    \/ CallParseScore

SpecCalls == InitCalls /\ [][NextCalls]_vars

(***************************************************************************)
(* Properties.                                                             *)
(***************************************************************************)
\* compute_results has returned
Computed == pc \in {"write_csv", "write_markdown", "print", "done"}

\* compute_results has raised
ComputeFailed == pc = "failed" /\ rows # <<>>

LoadCriteriaDone == call.fn = "load_criteria" /\ call.ret # Pending

ParseScoreDone == call.fn = "parse_score" /\ call.ret # Pending

\* C1: the returned results are in non-increasing order of the numeric
\* value of weighted_score, and results with equal values keep the order
\* their rows had in the input: the results are the scored rows taken
\* along a permutation under which no result is followed by one of greater
\* value and equal values keep their input order.
C1_Claim ==
    LET unsorted == ScoreRows(criteria, rows, min_score, max_score).val
        keys == [i \in 1..Len(results) |-> SortKey(results[i])]
    IN  Computed =>
            \E p \in [1..Len(results) -> 1..Len(results)] :
                /\ \A i, j \in 1..Len(results) : p[i] = p[j] => i = j
                /\ \A i \in 1..Len(results) : results[i] = unsorted[p[i]]
                /\ \A i, j \in 1..Len(results) :
                      i < j =>
                         /\ ~FLt(keys[i], keys[j])
                         /\ FEq(keys[i], keys[j]) => p[i] < p[j]

\* C2: an output file exists only after criteria loading, score loading and
\* the scoring of every row have succeeded, and a run that failed has
\* written neither file.
C2_Theorem ==
    /\ (csv_out # NoFile \/ md_out # NoFile) =>
          /\ pc \in {"write_markdown", "print", "done"}
          /\ csv_out # NoFile
          /\ ~WeightsOff(criteria) /\ ~IdsRepeat(criteria)
          /\ rows # <<>>
          /\ T.tool \in DOMAIN rows[1]
          /\ \A k \in 1..Len(rows) :
                ScoreRow(criteria, rows[k], min_score, max_score).ok
          /\ Len(results) = Len(rows)
    /\ pc = "failed" => csv_out = NoFile /\ md_out = NoFile

\* scoring failed at a row that is not the first, and nothing was written
C2_Witness ==
    /\ ComputeFailed
    /\ Len(rows) >= 2
    /\ ScoreRow(criteria, rows[1], min_score, max_score).ok
    /\ ~ScoreRow(criteria, rows[2], min_score, max_score).ok
    /\ csv_out = NoFile
    /\ md_out = NoFile

\* the sum of the weights is a number no further than 1e-5 from 1.0
WithinTolerance(total) ==
    total.k = "fin" /\ FLe(FAbs(FSub(total, One)), Tolerance)

\* C3: load_criteria accepts a rubric only if its weights sum to within
\* 1e-5 of 1.0, and rejects every other rubric with the error
\* "Criteria weights must sum to 1.0". The rubrics are those of the calls
\* that built every Criterion and went on to line 41.
C3_Claim ==
    LET built == BuildCriteria(Get(call.arg, YStr(K.criteria), YSeq(<<>>))).val
    IN  (LoadCriteriaDone /\ (call.ret.ok \/ call.ret.msg \in {WeightsMsg, IdsMsg})) =>
            (~WithinTolerance(SumWeights(built)) =>
                /\ ~call.ret.ok
                /\ call.ret.msg = WeightsMsg)

\* the id of the entry c of a rubric, trimmed
TrimmedId(c) == Strip(StrOf(Get(c, YStr(K.id), YNull)))

\* two entries of the rubric, each with an id, have the same id once
\* trimmed
TrimmedIdsRepeat(data) ==
    LET raw == Get(data, YStr(K.criteria), YSeq(<<>>))
    IN  /\ data.t = "map"
        /\ raw.t = "seq"
        /\ \E i, j \in 1..Len(raw.v) :
              /\ i # j
              /\ raw.v[i].t = "map" /\ KeyAt(raw.v[i], YStr(K.id)) # {}
              /\ raw.v[j].t = "map" /\ KeyAt(raw.v[j], YStr(K.id)) # {}
              /\ TrimmedId(raw.v[i]) = TrimmedId(raw.v[j])

\* C4: load_criteria rejects every rubric in which two criteria have the
\* same id after trimming, whatever the weights sum to, and every criteria
\* list it returns has pairwise distinct ids.
C4_Theorem ==
    LoadCriteriaDone =>
        /\ TrimmedIdsRepeat(call.arg) => ~call.ret.ok
        /\ call.ret.ok =>
              \A i, j \in 1..Len(call.ret.val.criteria) :
                  i # j => call.ret.val.criteria[i].cid # call.ret.val.criteria[j].cid

\* a rubric with valid weights whose ids differ as written and agree once
\* trimmed was rejected for its ids
C4_Witness ==
    /\ LoadCriteriaDone
    /\ call.ret.msg = IdsMsg
    /\ \E i, j \in 1..Len(call.arg.v[1][2].v) :
          /\ Get(call.arg.v[1][2].v[i], YStr(K.id), YNull)
             # Get(call.arg.v[1][2].v[j], YStr(K.id), YNull)
          /\ TrimmedId(call.arg.v[1][2].v[i]) = TrimmedId(call.arg.v[1][2].v[j])

\* C5: parse_score accepts the text of a number n exactly when
\* min_score <= n <= max_score, returns n itself, and rejects every other
\* n, one unit outside either bound included, with a score-out-of-range
\* value error.
C5_Theorem ==
    ParseScoreDone =>
        \A n \in -3..102 :
            call.arg.value = IntText(n) =>
                IF call.arg.min_score <= n /\ n <= call.arg.max_score
                THEN call.ret.ok /\ call.ret.val = FromInt(IntVal(n))
                ELSE /\ ~call.ret.ok
                     /\ call.ret.exc = "ValueError"
                     /\ call.ret.msg = <<"Score ">> \o IntText(n)
                                       \o <<".", "0", " out of range">>

\* a score equal to max_score, above min_score, was accepted
C5_Witness ==
    /\ ParseScoreDone
    /\ call.arg.min_score < call.arg.max_score
    /\ call.arg.value = IntText(call.arg.max_score)
    /\ call.ret.ok
    /\ call.ret.val = FromInt(IntVal(call.arg.max_score))

\* the row has the score max_score on every criterion
AllMax(row) ==
    \A i \in 1..Len(criteria) :
        /\ criteria[i].cid \in DOMAIN row
        /\ row[criteria[i].cid] # None
        /\ ParseFloat(row[criteria[i].cid]).ok
        /\ FEq(ParseFloat(row[criteria[i].cid]).val, Exact(max_score))

\* the result emitted for row k
Emitted(k) == ScoreRow(criteria, rows[k], min_score, max_score).val

IsEmitted(k) == \E j \in 1..Len(results) : results[j] = Emitted(k)

\* the loaded weights sum to within 1e-5 of 1.0
WeightsValid == WithinTolerance(SumWeights(criteria))

\* C6 as stated: under a rubric whose weights sum to 1.0 within the
\* tolerance, a row with max_score on every criterion is emitted with
\* weighted_score equal to max_score to 3 decimals and normalized_percent
\* 100.0.
C6_Claim ==
    (Computed /\ WeightsValid) =>
        \A k \in 1..Len(rows) :
            AllMax(rows[k]) =>
                /\ IsEmitted(k)
                /\ Emitted(k).weighted_score = Format(FromInt(max_score), 3)
                /\ Emitted(k).normalized_percent = <<"1", "0", "0", ".", "0">>

\* every weight is a fraction, between 0 and 1, and max_score times the
\* distance of the weight sum from 1.0 is below 0.00049
RoundsToMax ==
    /\ \A i \in 1..Len(criteria) :
          FLe(Zero(0), criteria[i].weight) /\ FLe(criteria[i].weight, One)
    /\ FLt(FMul(FAbs(FromInt(max_score)), FAbs(FSub(SumWeights(criteria), One))),
           DecToFloat(0, <<"4", "9">>, -5))

\* C6 as amended: when there are at most 1000 criteria and max_score is at
\* most a million either way, a row with max_score on every criterion is
\* emitted with normalized_percent 100.0, and with weighted_score equal to
\* max_score to 3 decimals if every weight is between 0 and 1 and
\* |max_score| * |sum of the weights - 1.0| < 0.00049.
C6_Theorem ==
    (/\ Computed
     /\ Len(criteria) <= 1000
     /\ FLe(FAbs(FromInt(max_score)), FromInt(IntVal(1000000)))) =>
        \A k \in 1..Len(rows) :
            AllMax(rows[k]) =>
                /\ IsEmitted(k)
                /\ Emitted(k).normalized_percent = <<"1", "0", "0", ".", "0">>
                /\ RoundsToMax =>
                      Emitted(k).weighted_score = Format(FromInt(max_score), 3)

\* two criteria whose weights are as far from 1.0 as the amended claim
\* allows, |max_score| * |sum - 1.0| above 0.00045, and a row with the
\* maximum on both that was emitted with weighted_score max_score
C6_Witness ==
    /\ pc = "done"
    /\ Len(criteria) = 2
    /\ FLe(FAbs(FromInt(max_score)), FromInt(IntVal(1000000)))
    /\ RoundsToMax
    /\ FLt(DecToFloat(0, <<"4", "5">>, -5),
           FMul(FAbs(FromInt(max_score)), FAbs(FSub(SumWeights(criteria), One))))
    /\ \E k \in 1..Len(rows) :
          /\ AllMax(rows[k])
          /\ IsEmitted(k)
          /\ Emitted(k).weighted_score = Format(FromInt(max_score), 3)
          /\ Emitted(k).normalized_percent = <<"1", "0", "0", ".", "0">>

\* C7: compute_results returns one result per row or fails with a value
\* error or a lookup error, and in no other way.
C7_Claim ==
    /\ Computed => Len(results) = Len(rows)
    /\ ComputeFailed => err.exc \in {"ValueError", "KeyError"}

\* C8: after a successful run both outputs list exactly the results of
\* compute_results, one line each and in the same order, the line of rank
\* i is the i-th result, and no result has a greater weighted_score than
\* the one at rank 1.
C8_Claim ==
    pc = "done" =>
        /\ Len(csv_out) = Len(results) + 1
        /\ Len(md_out) = Len(results) + 3
        /\ \A i \in 1..Len(results) :
              /\ csv_out[i + 1][1] = results[i].tool
              /\ csv_out[i + 1][2] = results[i].weighted_score
              /\ csv_out[i + 1][3] = results[i].normalized_percent
              /\ md_out[i + 3][1] = IntText(i)
              /\ md_out[i + 3][2] = results[i].tool
              /\ md_out[i + 3][3] = results[i].weighted_score
              /\ md_out[i + 3][4] = results[i].normalized_percent
              /\ ~FLt(SortKey(results[1]), SortKey(results[i]))

\* C9: the normalized_percent of every emitted result lies between 0 and
\* 100 inclusive.
C9_Claim ==
    Computed =>
        \A i \in 1..Len(results) :
            /\ FLe(Zero(0), ParseFloat(results[i].normalized_percent).val)
            /\ FLe(ParseFloat(results[i].normalized_percent).val,
                   FromInt(IntVal(100)))

\* C10: under a rubric whose weights sum to 1.0 within the tolerance, the
\* weighted_score of every emitted result lies within the scale,
\* min_score <= weighted_score <= max_score.
C10_Claim ==
    (Computed /\ WeightsValid) =>
        \A i \in 1..Len(results) :
            /\ FLe(Exact(min_score), SortKey(results[i]))
            /\ FLe(SortKey(results[i]), Exact(max_score))

====
